---- MODULE Spec2Model ----
(***************************************************************************)
(* A model of the retrieval-augmented answering engine (rag_store/rag.py), *)
(* of the ingestion pipeline (rag_store/index_papers.py, indexing.py,      *)
(* embeddings.py) and of the terminal tester                               *)
(* (rag_store/rag_prediction_testing.py).                                  *)
(*                                                                         *)
(* Text is a sequence of atoms.  An atom is either a whitespace character  *)
(* (" " or "\n") or a run of visible characters; str.strip() and the       *)
(* truthiness of a string are computed on that representation.             *)
(***************************************************************************)
EXTENDS Integers, Sequences, FiniteSets, TLC

\* ------------------------------------------------------------------ bounds
\* The vector store answers a search with at most this many hits (and never
\* more than the k it was asked for).
MaxResults == 2
\* Queries made to one RAG instance.
MaxQueries == 2
\* Paper records one extract_papers call returns.
MaxPapers == 2

\* ------------------------------------------------------------------- text
EmptyStr == << >>

IsSpace(a) == a \in {" ", "\n"}

RECURSIVE lstrip(_)
lstrip(s) ==
    IF s = << >> THEN << >>
    ELSE IF IsSpace(Head(s)) THEN lstrip(Tail(s)) ELSE s

RECURSIVE rstrip(_)
rstrip(s) ==
    IF s = << >> THEN << >>
    ELSE IF IsSpace(s[Len(s)]) THEN rstrip(SubSeq(s, 1, Len(s) - 1)) ELSE s

\* str.strip()
strip(s) == rstrip(lstrip(s))

\* --------------------------------------------------- the external services
\* What the vector store holds: (document, score) hits.  A score is kept in
\* units of 1/10000 so that the three-decimal formatting has work to do.
Hits == { << [page_content |-> <<"alpha", " ", "beta">>, title |-> "T1"], 9137 >>,
          << [page_content |-> <<"gamma">>, title |-> "T2"], 420 >>,
          << [page_content |-> <<" ">>, title |-> "T3"], 5000 >> }

Queries == { <<"what", " ", "is", " ", "attention">>, << >> }

\* Exceptions a client may raise, by their str(e); str(Exception()) is "".
Errors == { <<"timeout">>, << >> }

\* Token sequences the language model answers with.
LLMAnswers == { <<"tok1">>, <<"tok1", " ", "tok2">> }

RECURSIVE SeqsUpTo(_, _)
SeqsUpTo(S, n) ==
    IF n = 0 THEN { << >> }
    ELSE LET shorter == SeqsUpTo(S, n - 1)
         IN  shorter \cup { Append(s, x) : s \in { t \in shorter : Len(t) = n - 1 }, x \in S }

Min(a, b) == IF a < b THEN a ELSE b

\* The answers similarity_search_with_score(query, k=k) can give: an
\* exception, or a ranked list of at most k hits.
SearchOutcomes(k) ==
    { [raised |-> TRUE, error |-> e, results |-> << >>, k |-> k] : e \in Errors }
    \cup
    { [raised |-> FALSE, error |-> << >>, results |-> r, k |-> k] :
        r \in SeqsUpTo(Hits, Min(k, MaxResults)) }

\* No search has been answered yet.
NoResp == [raised |-> FALSE, error |-> << >>, results |-> << >>, k |-> 0]

\* ------------------------------------------------------------- rag.py:89
DefaultK == 4

\* f"{score:.3f}" of a score given in 1/10000 (none of the scores used ends
\* in 5, so rounding the fourth decimal is plain rounding).
Digit(n) == ToString(n)
FormatScore3(s) ==
    LET t == (s + 5) \div 10
        whole == t \div 1000
        frac == t % 1000
    IN  ToString(whole) \o "." \o Digit(frac \div 100) \o Digit((frac \div 10) % 10)
          \o Digit(frac % 10)

Separator == "=================================================="

\* One block of the context: rag.py:98
ContextBlock(hit) ==
    << "[Relevance: " \o FormatScore3(hit[2]) \o "]", "\n" >>
      \o hit[1].page_content \o << "\n", Separator, "\n" >>

\* rag.py:96-98: the blocks are appended in the order the search ranked them
RECURSIVE BuildContext(_)
BuildContext(results) ==
    IF results = << >> THEN EmptyStr
    ELSE ContextBlock(Head(results)) \o BuildContext(Tail(results))

\* What a call gives its caller: a value, or an exception.
Returns(v) == [kind |-> "return", value |-> v]
Raises(e) == [kind |-> "raise", error |-> e]

\* get_context, given the store's answer (the try and its except clause):
\* rag.py:89-104
get_context_NoExcept(resp) ==
    IF resp.raised
    THEN Raises(resp.error)
    ELSE Returns([context |-> BuildContext(resp.results), results |-> resp.results])

get_context(resp) ==
    IF resp.raised
    THEN Returns([context |-> EmptyStr, results |-> << >>])
    ELSE Returns([context |-> BuildContext(resp.results), results |-> resp.results])

\* The fixed prompt template, around its two fields: rag.py:19-34
TemplateHead == << "Your task is to answer questions by using a given context.", "\n",
                   "%CONTEXT%", "\n" >>
TemplateMid == << "\n", "%Question%", "\n" >>
TemplateTail == << "\n", "Hint: Do not copy the context. Use your own words", "\n",
                   "Answer:", "\n" >>

\* get_prompt: rag.py:106-109
get_prompt(question, ctx) ==
    TemplateHead \o ctx \o TemplateMid \o question \o TemplateTail

Placeholder == << "No", " ", "relevant", " ", "documents", " ", "found", " ", "in",
                  " ", "the", " ", "knowledge", " ", "base." >>

\* rag.py:117-118 without the substitution
ContextOrPlaceholder_Keeps(ctx) == ctx

\* rag.py:117-118
ContextOrPlaceholder(ctx) ==
    IF strip(ctx) = << >> THEN Placeholder ELSE ctx

\* The Prediction of a call that went through: rag.py:126-131
SuccessPrediction(ans, docs, ctx) ==
    Returns([answer |-> ans, source_documents |-> docs, context_used |-> ctx])

\* The except clause of predict, which catches e: rag.py:133-139.  docs is
\* the local source_documents at the time (not used by the handler).
PredictExcept_KeepsSources(e, docs) ==
    Returns([answer |-> << "Sorry, I encountered an error: " >> \o e,
             source_documents |-> docs,
             context_used |-> EmptyStr])

PredictExcept(e, docs) ==
    Returns([answer |-> << "Sorry, I encountered an error: " >> \o e,
             source_documents |-> << >>,
             context_used |-> EmptyStr])

NoResult == [kind |-> "none"]

\* ------------------------------------------------- Python values and dicts
PyNone == [type |-> "NoneType"]
PyStr(t) == [type |-> "str", val |-> t]
PyInt(n) == [type |-> "int", val |-> n]
PyList(l) == [type |-> "list", val |-> l]

\* bool(v)
Truthy(v) ==
    CASE v.type = "NoneType" -> FALSE
      [] v.type = "int" -> v.val # 0
      [] OTHER -> v.val # << >>

\* d.get(key) and d.get(key, default)
DictGet(d, key) == IF key \in DOMAIN d THEN d[key] ELSE PyNone
DictGetDefault(d, key, default) == IF key \in DOMAIN d THEN d[key] ELSE default

\* l[:n]
SlicePrefix(l, n) ==
    IF n >= 0 THEN SubSeq(l, 1, Min(n, Len(l)))
    ELSE SubSeq(l, 1, IF Len(l) + n > 0 THEN Len(l) + n ELSE 0)

\* -------------------------------------------------------- index_papers.py
\* index_papers.py:32
RequiredVars == << "UPSTASH_VECTOR_REST_URL", "UPSTASH_VECTOR_REST_TOKEN", "OPENAI_API_KEY" >>

\* index_papers.py:21
DefaultBatchSize == 32

\* index_papers.py:33 as written with "is None" in place of "not"
MissingVars_OnlyAbsent(env) ==
    SelectSeq(RequiredVars, LAMBDA var : env[var] = PyNone)

\* index_papers.py:33: the required variables os.environ.get finds falsy
MissingVars(env) ==
    SelectSeq(RequiredVars, LAMBDA var : ~Truthy(env[var]))

\* "if not paper_abstracts: return" and "if not splits: return" left out
NothingToDo_Never(v) == FALSE

\* "if not paper_abstracts: return", "if not splits: return":
\* index_papers.py:50-51, 55-56
NothingToDo(v) == ~Truthy(v)

\* ------------------------------------------------------------ indexing.py
\* The condition of the comprehension without its strip(): indexing.py:37
KeepsPaper_NoStrip(paper) ==
    Truthy(DictGet(paper, "abstract"))

\* The condition of the comprehension: indexing.py:37
KeepsPaper(paper) ==
    /\ Truthy(DictGet(paper, "abstract"))
    /\ Truthy(PyStr(strip(DictGet(paper, "abstract").val)))

\* The comprehension: indexing.py:35-38
RECURSIVE FilterPapers(_)
FilterPapers(papers) ==
    IF papers = << >> THEN << >>
    ELSE IF KeepsPaper(Head(papers))
         THEN << Head(papers) >> \o FilterPapers(Tail(papers))
         ELSE FilterPapers(Tail(papers))

\* What extract_paper_abstracts returns for the papers extract_papers gave:
\* indexing.py:30-46
PaperAbstractsResult(papers) ==
    IF papers = << >> THEN PyNone
    ELSE IF FilterPapers(papers) = << >> THEN PyNone
         ELSE PyList(FilterPapers(papers))

\* What extract_paper_abstracts echoes: indexing.py:22-24, 28, 31, 40, 43
PaperAbstractsLog(papers) ==
    << [msg |-> "extracting"], [msg |-> "extraction complete", n |-> Len(papers)] >>
    \o (IF papers = << >> THEN << [msg |-> "no papers found"] >>
        ELSE << [msg |-> "papers with abstracts", n |-> Len(FilterPapers(papers))] >>
             \o (IF FilterPapers(papers) = << >>
                 THEN << [msg |-> "no papers with abstracts"] >> ELSE << >>))

\* indexing.py:52-67 (of the metadata, the id stands for all the fields)
MakeDocument(paper) ==
    [page_content |-> DictGetDefault(paper, "abstract", PyStr(EmptyStr)).val,
     metadata |-> [id |-> DictGetDefault(paper, "id", PyStr(EmptyStr))]]

RECURSIVE MakeDocuments(_)
MakeDocuments(papers) ==
    IF papers = << >> THEN << >>
    ELSE << MakeDocument(Head(papers)) >> \o MakeDocuments(Tail(papers))

\* indexing.py:73-74
ChunkSize == 1200
ChunkOverlap == 200

\* len() of an atom: a word's name gives its length, a whitespace character
\* and a one-letter word count one.
AtomLen(a) ==
    CASE a = "w1300" -> 1300
      [] a = "w700" -> 700
      [] a = "w600" -> 600
      [] a = "w150" -> 150
      [] OTHER -> 1

RECURSIVE TextLen(_)
TextLen(t) == IF t = << >> THEN 0 ELSE AtomLen(Head(t)) + TextLen(Tail(t))

RECURSIVE Concat(_)
Concat(pieces) == IF pieces = << >> THEN << >> ELSE Head(pieces) \o Concat(Tail(pieces))

\* indexing.py:75: the separators that can occur in a text of atoms (no word
\* holds a full stop, no text two line breaks in a row), in priority order.
Separators == << "\n", " " >>

\* The splitter cuts a text at a separator and keeps the separator at the
\* head of the piece that follows it; empty pieces are dropped.
RECURSIVE SplitKeep(_, _, _)
SplitKeep(text, sep, cur) ==
    IF text = << >> THEN (IF cur = << >> THEN << >> ELSE << cur >>)
    ELSE IF Head(text) = sep
         THEN (IF cur = << >> THEN << >> ELSE << cur >>) \o SplitKeep(Tail(text), sep, << sep >>)
         ELSE SplitKeep(Tail(text), sep, Append(cur, Head(text)))

\* The pieces joined and stripped: a chunk, or nothing when that is empty.
JoinDocs(cur) ==
    IF strip(Concat(cur)) = << >> THEN << >> ELSE << strip(Concat(cur)) >>

\* Pieces dropped from the front of the window until what stays fits the
\* overlap and leaves room for the next piece.
RECURSIVE PopFront(_, _)
PopFront(cur, len) ==
    IF cur # << >> /\
       (TextLen(Concat(cur)) > ChunkOverlap
          \/ (TextLen(Concat(cur)) + len > ChunkSize /\ TextLen(Concat(cur)) > 0))
    THEN PopFront(Tail(cur), len)
    ELSE cur

\* Small pieces merged into chunks of at most ChunkSize, each starting with
\* the tail of the one before.
RECURSIVE MergeSplits(_, _)
MergeSplits(pieces, cur) ==
    IF pieces = << >> THEN JoinDocs(cur)
    ELSE LET d == Head(pieces)
         IN  IF TextLen(Concat(cur)) + TextLen(d) > ChunkSize /\ cur # << >>
             THEN JoinDocs(cur) \o MergeSplits(Tail(pieces), Append(PopFront(cur, TextLen(d)), d))
             ELSE MergeSplits(Tail(pieces), Append(cur, d))

\* The first separator of seps that occurs in the text (the last one when
\* none does), as an index into seps.
SeparatorIndex(text, seps) ==
    LET found == { i \in 1..Len(seps) : \E j \in 1..Len(text) : text[j] = seps[i] }
    IN  IF found = {} THEN Len(seps) ELSE CHOOSE i \in found : \A k \in found : i <= k

\* RecursiveCharacterTextSplitter.split_text as configured at
\* indexing.py:72-76: cut at the first separator that occurs, merge the small
\* pieces, cut a piece that is too long at the next separators, and keep it
\* whole when no separator is left.
RECURSIVE SplitText(_, _)
RECURSIVE SplitPieces(_, _, _)
SplitText(text, seps) ==
    LET i == SeparatorIndex(text, seps)
        found == \E j \in 1..Len(text) : text[j] = seps[i]
        rest == IF found THEN SubSeq(seps, i + 1, Len(seps)) ELSE << >>
    IN  SplitPieces(SplitKeep(text, seps[i], << >>), rest, << >>)

SplitPieces(pieces, rest, good) ==
    IF pieces = << >> THEN (IF good = << >> THEN << >> ELSE MergeSplits(good, << >>))
    ELSE LET p == Head(pieces)
         IN  IF TextLen(p) < ChunkSize
             THEN SplitPieces(Tail(pieces), rest, Append(good, p))
             ELSE (IF good = << >> THEN << >> ELSE MergeSplits(good, << >>))
                  \o (IF rest = << >> THEN << p >> ELSE SplitText(p, rest))
                  \o SplitPieces(Tail(pieces), rest, << >>)

\* text_splitter.split_documents: indexing.py:79
RECURSIVE ChunksOf(_, _)
ChunksOf(chunks, metadata) ==
    IF chunks = << >> THEN << >>
    ELSE << [page_content |-> Head(chunks), metadata |-> metadata] >>
         \o ChunksOf(Tail(chunks), metadata)

RECURSIVE SplitDocuments(_)
SplitDocuments(documents) ==
    IF documents = << >> THEN << >>
    ELSE ChunksOf(SplitText(Head(documents).page_content, Separators),
                  Head(documents).metadata)
         \o SplitDocuments(Tail(documents))

\* indexing.py:83-85
ApplyChunkLimit(max_chunks, splits) ==
    IF Truthy(max_chunks) /\ max_chunks.val < Len(splits)
    THEN SlicePrefix(splits, max_chunks.val)
    ELSE splits

\* What split_and_chunk_documents returns: indexing.py:48-91
split_and_chunk_documents(max_chunks, papers_with_abstracts) ==
    LET splits == ApplyChunkLimit(max_chunks,
                                  SplitDocuments(MakeDocuments(papers_with_abstracts)))
    IN  IF splits = << >> THEN PyNone ELSE PyList(splits)

\* What split_and_chunk_documents echoes: indexing.py:69, 78, 80, 85, 88
SplitAndChunkLog(max_chunks, papers_with_abstracts) ==
    LET all == SplitDocuments(MakeDocuments(papers_with_abstracts))
        splits == ApplyChunkLimit(max_chunks, all)
    IN  << [msg |-> "created documents", n |-> Len(papers_with_abstracts)],
           [msg |-> "splitting"],
           [msg |-> "created chunks", n |-> Len(all)] >>
        \o (IF splits # all THEN << [msg |-> "limited", n |-> Len(splits)] >> ELSE << >>)
        \o (IF splits = << >> THEN << [msg |-> "no chunks"] >> ELSE << >>)

\* ---------------------------------------------------------- embeddings.py
\* The except clause of create_embeddings without its raise
CreateEmbeddingsExcept_Swallows(e) == Returns(PyNone)

\* The except clause of create_embeddings, after its echo: embeddings.py:34-36
CreateEmbeddingsExcept(e) == Raises(e)

\* The end of create_embeddings after add_documents returned ids: the
\* function has no return statement (embeddings.py:31-32)
CreateEmbeddingsReturn(ids) == Returns(PyNone)

\* ------------------------------------------------------------------ state
VARIABLES
    streaming,          \* set_llm: the model streams into a StreamHandler
    handlerText,        \* StreamHandler.text
    display,            \* what the container shows (its last markdown call)
    pc,                 \* where the current predict call stands
    query,              \* predict's argument
    context,            \* predict's local context
    source_documents,   \* predict's local source_documents
    prompt,             \* predict's local prompt
    result,             \* what predict gave its caller
    searchResp,         \* the vector store's answer to the last search
    ctxReturn,          \* what the last get_context call returned
    nSearch,            \* similarity searches issued by the current call
    nInvoke,            \* language-model invocations issued by the current call
    llmTokens,          \* the tokens the model produces for this invocation
    streamPos,          \* how many of them it has produced
    nQueries,           \* predict calls made so far
    env,                \* os.environ after load_dotenv, at the required names
    max_chunks,         \* --max_chunks
    batch_size,         \* --batch_size
    ipc,                \* where the index-papers run stands
    papers,             \* what extract_papers returned
    paper_abstracts,    \* what extract_paper_abstracts returned
    splits,             \* what split_and_chunk_documents returned
    sent,               \* chunks add_documents has embedded and upserted
    ids,                \* the ids the store has assigned in this call
    store,              \* the records of the remote vector store
    log,                \* what the run has echoed
    nExtract,           \* calls of extract_papers
    nEmbed,             \* calls of the embedding provider
    nUpsert,            \* upserts sent to the vector store
    nAddDocuments,      \* calls of add_documents
    clientFault,        \* the exception a client raised in create_embeddings
    ceResult,           \* what create_embeddings gave its caller
    ixResult,           \* what index_papers gave its caller
    hpc,                \* where the terminal tester stands
    stdin,              \* the lines of its input stream not read yet
    user_input,         \* the line of the current iteration, stripped
    shown,              \* what the current step of the tester has displayed
    pending,            \* the exception on its way to the loop's except clauses
    connected,          \* what test_connection gave main
    nProbe,             \* similarity searches test_connection has issued
    samplesLeft         \* sample queries main has still to run

ragVars == << streaming, handlerText, display, pc, query, context, source_documents,
              prompt, result, searchResp, ctxReturn, nSearch, nInvoke, llmTokens,
              streamPos, nQueries >>

ixVars == << env, max_chunks, batch_size, ipc, papers, paper_abstracts, splits, sent,
             ids, store, log, nExtract, nEmbed, nUpsert, nAddDocuments, clientFault,
             ceResult, ixResult >>

hVars == << hpc, stdin, user_input, shown, pending, connected, nProbe, samplesLeft >>

vars == << ragVars, ixVars, hVars >>

NoCtx == [kind |-> "none"]
NoOutcome == [kind |-> "none"]
NoDisplay == [kind |-> "none"]
NoPending == [cls |-> "none"]

\* The terminal tester is not running.
NoHarness ==
    /\ hpc = "off"
    /\ stdin = << >>
    /\ user_input = EmptyStr
    /\ shown = NoDisplay
    /\ pending = NoPending
    /\ connected = NoOutcome
    /\ nProbe = 0
    /\ samplesLeft = 0

\* RAG.__init__ and set_llm: rag.py:56-87.  With a chat box whose container
\* can be set up the model streams into a fresh StreamHandler (rag.py:40-43);
\* otherwise there are no callbacks.
InitRAG ==
    /\ streaming \in BOOLEAN
    /\ handlerText = EmptyStr
    /\ display = EmptyStr
    /\ pc = "IDLE"
    /\ query = EmptyStr
    /\ context = EmptyStr
    /\ source_documents = << >>
    /\ prompt = EmptyStr
    /\ result = NoResult
    /\ searchResp = NoResp
    /\ ctxReturn = NoCtx
    /\ nSearch = 0
    /\ nInvoke = 0
    /\ llmTokens = << >>
    /\ streamPos = 0
    /\ nQueries = 0

\* A caller calls predict(q): rag.py:111-113
PredictCall ==
    /\ pc = "IDLE"
    /\ nQueries < MaxQueries
    /\ \E q \in Queries : query' = q
    /\ pc' = "RETRIEVING"
    /\ nQueries' = nQueries + 1
    /\ searchResp' = NoResp
    /\ ctxReturn' = NoCtx
    /\ UNCHANGED << streaming, handlerText, display, context, source_documents, prompt,
                    result, nSearch, nInvoke, llmTokens, streamPos >>
    /\ UNCHANGED ixVars
    /\ UNCHANGED hVars

\* rag.py:115-118: get_context(query) with the default k, then the
\* placeholder for a blank context; an exception out of get_context would
\* reach the except clause of predict (rag.py:133-139).
Retrieve ==
    /\ pc = "RETRIEVING"
    /\ \E resp \in SearchOutcomes(DefaultK) :
         LET r == get_context(resp)
         IN  /\ searchResp' = resp
             /\ ctxReturn' = r
             /\ IF r.kind = "return"
                THEN /\ source_documents' = r.value.results
                     /\ context' = ContextOrPlaceholder(r.value.context)
                     /\ pc' = IF strip(r.value.context) = << >> THEN "CONTEXT_EMPTY"
                              ELSE "CONTEXT_READY"
                     /\ result' = result
                ELSE /\ source_documents' = source_documents
                     /\ context' = context
                     /\ pc' = "ERROR"
                     /\ result' = PredictExcept(r.error, source_documents)
    /\ nSearch' = nSearch + 1
    /\ UNCHANGED << streaming, handlerText, display, query, prompt, nInvoke,
                    llmTokens, streamPos, nQueries >>
    /\ UNCHANGED ixVars
    /\ UNCHANGED hVars

\* rag.py:121: predict enters get_prompt
StartPrompt ==
    /\ pc \in {"CONTEXT_EMPTY", "CONTEXT_READY"}
    /\ pc' = "PROMPTING"
    /\ UNCHANGED << streaming, handlerText, display, query, context, source_documents,
                    prompt, result, searchResp, ctxReturn, nSearch, nInvoke, llmTokens,
                    streamPos, nQueries >>
    /\ UNCHANGED ixVars
    /\ UNCHANGED hVars

\* rag.py:121-124: the prompt is formatted and handed to llm.invoke
InvokeLlm ==
    /\ pc = "PROMPTING"
    /\ prompt' = get_prompt(query, context)
    /\ \E ans \in LLMAnswers : llmTokens' = ans
    /\ streamPos' = 0
    /\ nInvoke' = nInvoke + 1
    /\ pc' = "GENERATING"
    /\ UNCHANGED << streaming, handlerText, display, query, context, source_documents,
                    result, searchResp, ctxReturn, nSearch, nQueries >>
    /\ UNCHANGED ixVars
    /\ UNCHANGED hVars

\* rag.py:109 raises (a template with a field other than the two given), and
\* the except clause of predict answers: rag.py:133-139
PromptRaise ==
    /\ pc = "PROMPTING"
    /\ \E e \in Errors : result' = PredictExcept(e, source_documents)
    /\ pc' = "ERROR"
    /\ UNCHANGED << streaming, handlerText, display, query, context, source_documents,
                    prompt, searchResp, ctxReturn, nSearch, nInvoke, llmTokens,
                    streamPos, nQueries >>
    /\ UNCHANGED ixVars
    /\ UNCHANGED hVars

\* StreamHandler.on_llm_new_token: rag.py:45-48
OnLlmNewToken ==
    /\ pc = "GENERATING"
    /\ streaming
    /\ streamPos < Len(llmTokens)
    /\ streamPos' = streamPos + 1
    /\ handlerText' = handlerText \o << llmTokens[streamPos + 1] >>
    /\ display' = handlerText'
    /\ UNCHANGED << streaming, pc, query, context, source_documents, prompt, result,
                    searchResp, ctxReturn, nSearch, nInvoke, llmTokens, nQueries >>
    /\ UNCHANGED ixVars
    /\ UNCHANGED hVars

\* rag.py:124-131: llm.invoke returns and predict returns the Prediction
LlmReturn ==
    /\ pc = "GENERATING"
    /\ streaming => streamPos = Len(llmTokens)
    /\ result' = SuccessPrediction(llmTokens, source_documents, context)
    /\ pc' = "DONE"
    /\ UNCHANGED << streaming, handlerText, display, query, context, source_documents,
                    prompt, searchResp, ctxReturn, nSearch, nInvoke, llmTokens,
                    streamPos, nQueries >>
    /\ UNCHANGED ixVars
    /\ UNCHANGED hVars

\* rag.py:124 raises and the invocation is made once more
LlmRaise_Retries ==
    /\ pc = "GENERATING"
    /\ nInvoke = 1
    /\ pc' = "PROMPTING"
    /\ UNCHANGED << streaming, handlerText, display, query, context, source_documents,
                    prompt, result, searchResp, ctxReturn, nSearch, nInvoke, llmTokens,
                    streamPos, nQueries >>
    /\ UNCHANGED ixVars
    /\ UNCHANGED hVars

\* rag.py:124 raises, at any point of the generation, and the except clause
\* of predict answers: rag.py:133-139
LlmRaise ==
    /\ pc = "GENERATING"
    /\ \E e \in Errors : result' = PredictExcept(e, source_documents)
    /\ pc' = "ERROR"
    /\ UNCHANGED << streaming, handlerText, display, query, context, source_documents,
                    prompt, searchResp, ctxReturn, nSearch, nInvoke, llmTokens,
                    streamPos, nQueries >>
    /\ UNCHANGED ixVars
    /\ UNCHANGED hVars

\* predict has returned (rag.py:131, 135): its frame is gone, the caller has
\* the Prediction, and the engine waits for the next query.
PredictReturn ==
    /\ pc \in {"DONE", "ERROR"}
    /\ pc' = "IDLE"
    /\ query' = EmptyStr
    /\ context' = EmptyStr
    /\ source_documents' = << >>
    /\ prompt' = EmptyStr
    /\ result' = NoResult
    /\ searchResp' = NoResp
    /\ ctxReturn' = NoCtx
    /\ nSearch' = 0
    /\ nInvoke' = 0
    /\ llmTokens' = << >>
    /\ streamPos' = 0
    /\ UNCHANGED << streaming, handlerText, display, nQueries >>
    /\ UNCHANGED ixVars
    /\ UNCHANGED hVars

\* A caller calls get_context(q, k) itself: rag.py:89-104
GetContextCall ==
    /\ pc = "IDLE"
    /\ \E q \in Queries, k \in 1..DefaultK :
         \E resp \in SearchOutcomes(k) :
            /\ searchResp' = resp
            /\ ctxReturn' = get_context(resp)
    /\ UNCHANGED << streaming, handlerText, display, pc, query, context,
                    source_documents, prompt, result, nSearch, nInvoke, llmTokens,
                    streamPos, nQueries >>
    /\ UNCHANGED ixVars
    /\ UNCHANGED hVars

\* ---------------------------------------------------- the index-papers run
\* The run's inputs.
EnvValues == { PyNone, PyStr(EmptyStr), PyStr(<< "value" >>) }
Envs == [ { RequiredVars[i] : i \in 1..Len(RequiredVars) } -> EnvValues ]
MaxChunksOptions == { PyNone, PyInt(-1), PyInt(0), PyInt(1), PyInt(2) }
BatchSizes == { 1, DefaultBatchSize }

\* The abstracts a paper record can carry: the key missing, None, empty,
\* whitespace only, short ones, and three longer than the chunk size: one
\* whose chunks share nothing, one whose second chunk starts with the end of
\* the first, and one that is a single word with no separator in it.
Abstracts == { PyNone, PyStr(EmptyStr), PyStr(<< " ", " " >>), PyStr(<< "A" >>),
               PyStr(<< " ", "B", "\n" >>), PyStr(<< "w700", " ", "w600", " ", "w700" >>),
               PyStr(<< "w700", " ", "w150", " ", "w600" >>), PyStr(<< "w1300" >>) }

PaperRecords(i) ==
    { [id |-> PyInt(i)] } \cup { [id |-> PyInt(i), abstract |-> a] : a \in Abstracts }

\* The lists extract_papers can return: the i-th record has id i.
RECURSIVE PaperLists(_)
PaperLists(n) ==
    IF n = 0 THEN { << >> }
    ELSE PaperLists(n - 1)
         \cup { Append(l, r) : l \in { x \in PaperLists(n - 1) : Len(x) = n - 1 },
                               r \in PaperRecords(n) }

\* Nothing of the index-papers run has happened.
IndexIdle ==
    /\ ipc = "check_env"
    /\ papers = << >>
    /\ paper_abstracts = PyNone
    /\ splits = PyNone
    /\ sent = 0
    /\ ids = << >>
    /\ store = << >>
    /\ log = << >>
    /\ nExtract = 0
    /\ nEmbed = 0
    /\ nUpsert = 0
    /\ nAddDocuments = 0
    /\ clientFault = NoOutcome
    /\ ceResult = NoOutcome
    /\ ixResult = NoOutcome

\* index_papers is called: index_papers.py:19-28
InitIndex ==
    /\ env \in Envs
    /\ max_chunks \in MaxChunksOptions
    /\ batch_size \in BatchSizes
    /\ IndexIdle

\* index_papers.py:31-45: the required variables are checked; with one
\* missing the run reports them and returns.
CheckEnv ==
    /\ ipc = "check_env"
    /\ IF MissingVars(env) # << >>
       THEN /\ log' = log \o << [msg |-> "missing", names |-> MissingVars(env)],
                                [msg |-> "hints", names |-> MissingVars(env)] >>
            /\ ixResult' = Returns(PyNone)
            /\ ipc' = "returned"
       ELSE /\ log' = Append(log, [msg |-> "testing"])
            /\ ixResult' = ixResult
            /\ ipc' = "extract"
    /\ UNCHANGED << env, max_chunks, batch_size, papers, paper_abstracts, splits, sent,
                    ids, store, nExtract, nEmbed, nUpsert, nAddDocuments, clientFault,
                    ceResult >>
    /\ UNCHANGED ragVars
    /\ UNCHANGED hVars

\* index_papers.py:48-51 with indexing.py:20-46: extract_papers answers, the
\* papers are filtered, and the run returns when nothing is left.
ExtractPaperAbstracts ==
    /\ ipc = "extract"
    /\ \E found \in PaperLists(MaxPapers) :
         /\ papers' = found
         /\ paper_abstracts' = PaperAbstractsResult(found)
         /\ log' = log \o PaperAbstractsLog(found)
         /\ IF NothingToDo(PaperAbstractsResult(found))
            THEN ixResult' = Returns(PyNone) /\ ipc' = "returned"
            ELSE ixResult' = ixResult /\ ipc' = "chunk"
    /\ nExtract' = nExtract + 1
    /\ UNCHANGED << env, max_chunks, batch_size, splits, sent, ids, store, nEmbed,
                    nUpsert, nAddDocuments, clientFault, ceResult >>
    /\ UNCHANGED ragVars
    /\ UNCHANGED hVars

\* indexing.py:27 raises: nothing in extract_paper_abstracts or index_papers
\* catches it.
ExtractPapersRaise ==
    /\ ipc = "extract"
    /\ \E e \in Errors : ixResult' = Raises(e)
    /\ nExtract' = nExtract + 1
    /\ log' = Append(log, [msg |-> "extracting"])
    /\ ipc' = "raised"
    /\ UNCHANGED << env, max_chunks, batch_size, papers, paper_abstracts, splits, sent,
                    ids, store, nEmbed, nUpsert, nAddDocuments, clientFault, ceResult >>
    /\ UNCHANGED ragVars
    /\ UNCHANGED hVars

\* index_papers.py:53-56 with indexing.py:48-91: the filtered papers are cut
\* into chunks, and the run returns when there is none.  (Iterating over
\* None at indexing.py:52 is a TypeError, which nothing catches.)
SplitAndChunk ==
    /\ ipc = "chunk"
    /\ IF paper_abstracts.type = "list"
       THEN /\ splits' = split_and_chunk_documents(max_chunks, paper_abstracts.val)
            /\ log' = log \o << [msg |-> "testing splitting"] >>
                          \o SplitAndChunkLog(max_chunks, paper_abstracts.val)
            /\ IF NothingToDo(splits')
               THEN ixResult' = Returns(PyNone) /\ ipc' = "returned"
               ELSE ixResult' = ixResult /\ ipc' = "clients"
       ELSE /\ splits' = splits
            /\ log' = Append(log, [msg |-> "testing splitting"])
            /\ ixResult' = Raises(<< "TypeError" >>)
            /\ ipc' = "raised"
    /\ UNCHANGED << env, max_chunks, batch_size, papers, paper_abstracts, sent, ids,
                    store, nExtract, nEmbed, nUpsert, nAddDocuments, clientFault,
                    ceResult >>
    /\ UNCHANGED ragVars
    /\ UNCHANGED hVars

\* index_papers.py:58 with embeddings.py:21-31: create_embeddings builds its
\* two clients, echoes, and calls add_documents.  (len(None) at
\* embeddings.py:30 is a TypeError, which the except clause handles.)
MakeClients ==
    /\ ipc = "clients"
    /\ IF splits.type = "list"
       THEN /\ log' = Append(log, [msg |-> "indexing", n |-> Len(splits.val)])
            /\ nAddDocuments' = nAddDocuments + 1
            /\ ipc' = "add_documents"
            /\ UNCHANGED << ceResult, ixResult >>
       ELSE /\ log' = Append(log, [msg |-> "error", error |-> << "TypeError" >>])
            /\ nAddDocuments' = nAddDocuments
            /\ ceResult' = CreateEmbeddingsExcept(<< "TypeError" >>)
            /\ ixResult' = ceResult'
            /\ ipc' = "raised"
    /\ UNCHANGED << env, max_chunks, batch_size, papers, paper_abstracts, splits, sent,
                    ids, store, nExtract, nEmbed, nUpsert, clientFault >>
    /\ UNCHANGED ragVars
    /\ UNCHANGED hVars

\* What leaves create_embeddings by its except clause leaves index_papers the
\* same way: index_papers.py:58 is in no try.
FailCreateEmbeddings(e) ==
    /\ clientFault' = Raises(e)
    /\ log' = Append(log, [msg |-> "error", error |-> e])
    /\ ceResult' = CreateEmbeddingsExcept(e)
    /\ IF CreateEmbeddingsExcept(e).kind = "raise"
       THEN ixResult' = CreateEmbeddingsExcept(e) /\ ipc' = "raised"
       ELSE ixResult' = Returns(PyNone) /\ ipc' = "returned"

\* embeddings.py:23-28 raises (a client cannot be built), and the except
\* clause echoes and raises again: embeddings.py:34-36
MakeClientsRaise ==
    /\ ipc = "clients"
    /\ \E e \in Errors : FailCreateEmbeddings(e)
    /\ UNCHANGED << env, max_chunks, batch_size, papers, paper_abstracts, splits, sent,
                    ids, store, nExtract, nEmbed, nUpsert, nAddDocuments >>
    /\ UNCHANGED ragVars
    /\ UNCHANGED hVars

\* The next batch of add_documents (embeddings.py:31): its chunks' texts are
\* embedded and the vectors upserted with text and metadata; the store
\* assigns each record an id.
BatchEnd == Min(sent + batch_size, Len(splits.val))

AddBatch ==
    /\ ipc = "add_documents"
    /\ sent < Len(splits.val)
    /\ LET new == [ i \in 1..(BatchEnd - sent) |->
                      [id |-> Len(store) + i,
                       text |-> splits.val[sent + i].page_content,
                       metadata |-> splits.val[sent + i].metadata] ]
       IN  /\ store' = store \o new
           /\ ids' = ids \o [ i \in 1..Len(new) |-> new[i].id ]
    /\ sent' = BatchEnd
    /\ nEmbed' = nEmbed + 1
    /\ nUpsert' = nUpsert + 1
    /\ UNCHANGED << env, max_chunks, batch_size, ipc, papers, paper_abstracts, splits,
                    log, nExtract, nAddDocuments, clientFault, ceResult, ixResult >>
    /\ UNCHANGED ragVars
    /\ UNCHANGED hVars

\* The embedding call of the next batch raises: embeddings.py:31, 34-36
EmbedRaise ==
    /\ ipc = "add_documents"
    /\ sent < Len(splits.val)
    /\ \E e \in Errors : FailCreateEmbeddings(e)
    /\ nEmbed' = nEmbed + 1
    /\ UNCHANGED << env, max_chunks, batch_size, papers, paper_abstracts, splits, sent,
                    ids, store, nExtract, nUpsert, nAddDocuments >>
    /\ UNCHANGED ragVars
    /\ UNCHANGED hVars

\* The upsert of the next batch raises: embeddings.py:31, 34-36
UpsertRaise ==
    /\ ipc = "add_documents"
    /\ sent < Len(splits.val)
    /\ \E e \in Errors : FailCreateEmbeddings(e)
    /\ nEmbed' = nEmbed + 1
    /\ nUpsert' = nUpsert + 1
    /\ UNCHANGED << env, max_chunks, batch_size, papers, paper_abstracts, splits, sent,
                    ids, store, nExtract, nAddDocuments >>
    /\ UNCHANGED ragVars
    /\ UNCHANGED hVars

\* add_documents returns the ids; create_embeddings echoes and ends, and so
\* does index_papers: embeddings.py:31-32, index_papers.py:58
AddDocumentsReturn ==
    /\ ipc = "add_documents"
    /\ sent = Len(splits.val)
    /\ log' = Append(log, [msg |-> "success", n |-> Len(ids)])
    /\ ceResult' = CreateEmbeddingsReturn(ids)
    /\ ixResult' = Returns(PyNone)
    /\ ipc' = "returned"
    /\ UNCHANGED << env, max_chunks, batch_size, papers, paper_abstracts, splits, sent,
                    ids, store, nExtract, nEmbed, nUpsert, nAddDocuments, clientFault >>
    /\ UNCHANGED ragVars
    /\ UNCHANGED hVars

NextIndex ==
    \/ CheckEnv
    \/ ExtractPaperAbstracts
    \/ ExtractPapersRaise
    \/ SplitAndChunk
    \/ MakeClients
    \/ MakeClientsRaise
    \/ AddBatch
    \/ EmbedRaise
    \/ UpsertRaise
    \/ AddDocumentsReturn

\* The engine is not used during an index-papers run.
RAGIdle ==
    /\ streaming = FALSE
    /\ handlerText = EmptyStr
    /\ display = EmptyStr
    /\ pc = "IDLE"
    /\ query = EmptyStr
    /\ context = EmptyStr
    /\ source_documents = << >>
    /\ prompt = EmptyStr
    /\ result = NoResult
    /\ searchResp = NoResp
    /\ ctxReturn = NoCtx
    /\ nSearch = 0
    /\ nInvoke = 0
    /\ llmTokens = << >>
    /\ streamPos = 0
    /\ nQueries = 0

InitIndexRun == InitIndex /\ RAGIdle /\ NoHarness

SpecIndex == InitIndexRun /\ [][NextIndex]_vars

NextRAG ==
    \/ PredictCall
    \/ Retrieve
    \/ StartPrompt
    \/ InvokeLlm
    \/ PromptRaise
    \/ OnLlmNewToken
    \/ LlmReturn
    \/ LlmRaise
    \/ PredictReturn
    \/ GetContextCall

\* No index-papers run takes place while the engine answers.
NoIndexRun ==
    /\ env = [ v \in { RequiredVars[i] : i \in 1..Len(RequiredVars) } |-> PyStr(<< "value" >>) ]
    /\ max_chunks = PyNone
    /\ batch_size = DefaultBatchSize
    /\ IndexIdle

Init == InitRAG /\ NoIndexRun /\ NoHarness

Spec == Init /\ [][NextRAG]_vars

\* predict runs each stage to its end: every client call returns or raises
\* (single-threaded and synchronous; a streaming call runs to completion or
\* raises).  Nothing obliges a caller to make another query.
SpecLive ==
    /\ Init
    /\ [][NextRAG]_vars
    /\ WF_vars(Retrieve)
    /\ WF_vars(StartPrompt)
    /\ WF_vars(InvokeLlm \/ PromptRaise)
    /\ WF_vars(OnLlmNewToken)
    /\ WF_vars(LlmReturn \/ LlmRaise)

\* ------------------------------------------- rag_prediction_testing.py, main
\* How many lines the input stream of a session holds at most.
MaxLines == 2

\* rag.py:144, rag_prediction_testing.py:136, :10, :127-131
ProbeK == 1
SampleK == 2
RetrievalK == 3
SampleQueryCount == 3

\* str.lower() of an atom
LowerAtom(a) ==
    CASE a = "Exit" -> "exit"
      [] a = "QUIT" -> "quit"
      [] a = "Search:" -> "search:"
      [] OTHER -> a

lower(s) == [ i \in 1..Len(s) |-> LowerAtom(s[i]) ]

\* rag_prediction_testing.py:70
ExitCommands == { << "quit" >>, << "exit" >>, << "q" >> }

\* user_input.startswith('search:') and user_input[7:]: the atom "search:"
\* is the seven characters of the directive (rag_prediction_testing.py:74-75)
startswith_search(s) == s # << >> /\ Head(s) = "search:"
AfterSearchPrefix(s) == Tail(s)

\* The tests of one iteration without the lower() of the first
Dispatch_NoLower(line) ==
    IF line \in ExitCommands THEN "exit"
    ELSE IF startswith_search(line) THEN "retrieval"
    ELSE IF line # EmptyStr THEN "full_rag"
    ELSE "reminder"

\* The tests of one iteration, in the order of the code:
\* rag_prediction_testing.py:70-80
Dispatch(line) ==
    IF lower(line) \in ExitCommands THEN "exit"
    ELSE IF startswith_search(line) THEN "retrieval"
    ELSE IF line # EmptyStr THEN "full_rag"
    ELSE "reminder"

\* Exceptions by class and str(e).  KeyboardInterrupt derives from
\* BaseException, the others from Exception.
KeyboardInterrupt == [cls |-> "KeyboardInterrupt", text |-> EmptyStr]
EOFError == [cls |-> "EOFError", text |-> << "EOF when reading a line" >>]
IterationErrors == { [cls |-> "Exception", text |-> e] : e \in Errors }
IsException(exc) == exc.cls \in {"Exception", "EOFError"}

\* The except clauses of the loop with the second one first
interactive_except_CatchesAllFirst(exc) ==
    IF IsException(exc) \/ exc.cls = "KeyboardInterrupt" THEN "continue"
    ELSE "propagate"

\* The except clauses of the loop: rag_prediction_testing.py:82-86
interactive_except(exc) ==
    IF exc.cls = "KeyboardInterrupt" THEN "break"
    ELSE IF IsException(exc) THEN "continue"
    ELSE "propagate"

\* test_connection answering True whenever the search returned
test_connection_AnyAnswer(resp) ==
    IF resp.raised THEN Returns(FALSE) ELSE Returns(TRUE)

\* RAG.test_connection, given the store's answer: rag.py:141-149
test_connection(resp) ==
    IF resp.raised THEN Returns(FALSE) ELSE Returns(Len(resp.results) > 0)

\* The lines a user may type: an exit command with blanks around it and a
\* capital, a search directive, a question, a blank line, a directive with
\* a capital, and a question that begins with an exit word.
Lines == { << " ", "Exit", " " >>,
           << "search:", " ", "attention" >>,
           << "what", " ", "is", " ", "attention" >>,
           << " " >>,
           << "Search:", "attention" >>,
           << "quit", " ", "now" >> }

\* main after RAG(chat_box=None, ...) at rag_prediction_testing.py:114: no
\* chat box, so no streaming (rag.py:75-78).
TesterStart ==
    /\ hpc = "test_connection"
    /\ stdin \in SeqsUpTo(Lines, MaxLines)
    /\ user_input = EmptyStr
    /\ shown = NoDisplay
    /\ pending = NoPending
    /\ connected = NoOutcome
    /\ nProbe = 0
    /\ samplesLeft = SampleQueryCount

\* The frame of a predict call is gone.
PredictFrameGone ==
    /\ pc' = "IDLE"
    /\ query' = EmptyStr
    /\ context' = EmptyStr
    /\ source_documents' = << >>
    /\ prompt' = EmptyStr
    /\ result' = NoResult
    /\ searchResp' = NoResp
    /\ ctxReturn' = NoCtx
    /\ nSearch' = 0
    /\ nInvoke' = 0
    /\ llmTokens' = << >>
    /\ streamPos' = 0
    /\ UNCHANGED << streaming, handlerText, display, nQueries >>

\* rag_prediction_testing.py:118-121 with rag.py:141-149: one search with
\* k=1; main returns when test_connection answers False.
TestConnection ==
    /\ hpc = "test_connection"
    /\ \E resp \in SearchOutcomes(ProbeK) :
         /\ searchResp' = resp
         /\ connected' = test_connection(resp)
         /\ shown' = IF resp.raised
                     THEN [kind |-> "connection failed", error |-> resp.error]
                     ELSE [kind |-> "connection working", n |-> Len(resp.results)]
    /\ nProbe' = nProbe + 1
    /\ hpc' = IF connected'.kind = "return" /\ connected'.value THEN "samples"
              ELSE "main_returned"
    /\ UNCHANGED << streaming, handlerText, display, pc, query, context,
                    source_documents, prompt, result, ctxReturn, nSearch, nInvoke,
                    llmTokens, streamPos, nQueries >>
    /\ UNCHANGED << stdin, user_input, pending, samplesLeft >>
    /\ UNCHANGED ixVars

\* rag_prediction_testing.py:134-140: one sample query, get_context with k=2
SampleQuery ==
    /\ hpc = "samples"
    /\ samplesLeft > 0
    /\ \E resp \in SearchOutcomes(SampleK) :
         /\ searchResp' = resp
         /\ ctxReturn' = get_context(resp)
         /\ shown' = IF ctxReturn'.kind = "return" /\ ctxReturn'.value.results # << >>
                     THEN [kind |-> "found", n |-> Len(ctxReturn'.value.results)]
                     ELSE [kind |-> "not found"]
    /\ samplesLeft' = samplesLeft - 1
    /\ UNCHANGED << streaming, handlerText, display, pc, query, context,
                    source_documents, prompt, result, nSearch, nInvoke, llmTokens,
                    streamPos, nQueries >>
    /\ UNCHANGED << hpc, stdin, user_input, pending, connected, nProbe >>
    /\ UNCHANGED ixVars

\* rag_prediction_testing.py:142-145, 59-64: main enters interactive_mode,
\* which prints its banner; main's context and results are not used again.
EnterInteractiveMode ==
    /\ hpc = "samples"
    /\ samplesLeft = 0
    /\ hpc' = "read"
    /\ shown' = [kind |-> "banner"]
    /\ searchResp' = NoResp
    /\ ctxReturn' = NoCtx
    /\ UNCHANGED << streaming, handlerText, display, pc, query, context,
                    source_documents, prompt, result, nSearch, nInvoke, llmTokens,
                    streamPos, nQueries >>
    /\ UNCHANGED << stdin, user_input, pending, connected, nProbe, samplesLeft >>
    /\ UNCHANGED ixVars

\* rag_prediction_testing.py:68: input() returns the next line, stripped
ReadLine ==
    /\ hpc = "read"
    /\ stdin # << >>
    /\ user_input' = strip(Head(stdin))
    /\ stdin' = Tail(stdin)
    /\ shown' = [kind |-> "prompt"]
    /\ hpc' = "dispatch"
    /\ UNCHANGED << pending, connected, nProbe, samplesLeft >>
    /\ UNCHANGED ragVars
    /\ UNCHANGED ixVars

\* rag_prediction_testing.py:68: input() at the end of the stream raises
\* EOFError
ReadEof ==
    /\ hpc = "read"
    /\ stdin = << >>
    /\ pending' = EOFError
    /\ shown' = [kind |-> "prompt"]
    /\ hpc' = "except"
    /\ UNCHANGED << stdin, user_input, connected, nProbe, samplesLeft >>
    /\ UNCHANGED ragVars
    /\ UNCHANGED ixVars

\* rag_prediction_testing.py:70-80: the line is an exit command (the loop
\* breaks), a search directive (test_retrieval_only is called with what
\* follows the prefix, stripped), a question (test_full_rag calls predict,
\* rag_prediction_testing.py:41), or empty (a reminder).
DispatchLine ==
    /\ hpc = "dispatch"
    /\ LET to == Dispatch(user_input)
       IN  /\ hpc' = CASE to = "exit" -> "ended"
                       [] to = "retrieval" -> "retrieval"
                       [] to = "full_rag" -> "full_rag"
                       [] OTHER -> "read"
           /\ shown' = CASE to = "exit" -> [kind |-> "goodbye"]
                         [] to = "retrieval" ->
                              [kind |-> "testing retrieval",
                               query |-> strip(AfterSearchPrefix(user_input))]
                         [] to = "full_rag" -> [kind |-> "testing full RAG", query |-> user_input]
                         [] OTHER -> [kind |-> "reminder"]
           /\ IF to = "full_rag"
              THEN /\ pc' = "RETRIEVING"
                   /\ query' = user_input
                   /\ nQueries' = nQueries + 1
                   /\ searchResp' = NoResp
                   /\ ctxReturn' = NoCtx
              ELSE UNCHANGED << pc, query, nQueries, searchResp, ctxReturn >>
    /\ UNCHANGED << streaming, handlerText, display, context, source_documents, prompt,
                    result, nSearch, nInvoke, llmTokens, streamPos >>
    /\ UNCHANGED << stdin, user_input, pending, connected, nProbe, samplesLeft >>
    /\ UNCHANGED ixVars

\* test_retrieval_only: rag_prediction_testing.py:17-31, get_context with
\* k=3 and the display of what it found.
TestRetrievalOnly ==
    /\ hpc = "retrieval"
    /\ \E resp \in SearchOutcomes(RetrievalK) :
         LET r == get_context(resp)
         IN  /\ searchResp' = resp
             /\ ctxReturn' = r
             /\ IF r.kind = "return"
                THEN /\ shown' = IF r.value.results = << >>
                                 THEN [kind |-> "no documents"]
                                 ELSE [kind |-> "documents", results |-> r.value.results]
                     /\ pending' = pending
                     /\ hpc' = "read"
                ELSE /\ shown' = shown
                     /\ pending' = [cls |-> "Exception", text |-> r.error]
                     /\ hpc' = "except"
    /\ UNCHANGED << streaming, handlerText, display, pc, query, context,
                    source_documents, prompt, result, nSearch, nInvoke, llmTokens,
                    streamPos, nQueries >>
    /\ UNCHANGED << stdin, user_input, connected, nProbe, samplesLeft >>
    /\ UNCHANGED ixVars

\* A statement of test_retrieval_only raises (load_dotenv, a print):
\* rag_prediction_testing.py:11-31
TestRetrievalOnlyRaise ==
    /\ hpc = "retrieval"
    /\ \E exc \in IterationErrors : pending' = exc
    /\ hpc' = "except"
    /\ UNCHANGED << stdin, user_input, shown, connected, nProbe, samplesLeft >>
    /\ UNCHANGED ragVars
    /\ UNCHANGED ixVars

\* test_full_rag after predict returned: rag_prediction_testing.py:41-54,
\* the answer and the sources are displayed.
TestFullRagShow ==
    /\ hpc = "full_rag"
    /\ pc \in {"DONE", "ERROR"}
    /\ shown' = [kind |-> "prediction", answer |-> result.value.answer,
                 sources |-> result.value.source_documents]
    /\ hpc' = "read"
    /\ PredictFrameGone
    /\ UNCHANGED << stdin, user_input, pending, connected, nProbe, samplesLeft >>
    /\ UNCHANGED ixVars

\* A statement of test_full_rag raises after predict returned (a print):
\* rag_prediction_testing.py:43-54
TestFullRagRaise ==
    /\ hpc = "full_rag"
    /\ pc \in {"DONE", "ERROR"}
    /\ \E exc \in IterationErrors : pending' = exc
    /\ hpc' = "except"
    /\ PredictFrameGone
    /\ UNCHANGED << stdin, user_input, shown, connected, nProbe, samplesLeft >>
    /\ UNCHANGED ixVars

\* The user interrupts the session while the loop's try block runs:
\* KeyboardInterrupt is raised there; "except Exception" in predict and in
\* get_context (rag.py:102, 133) does not catch it, so a running predict is
\* abandoned.
KeyboardInterruptRaise ==
    /\ hpc \in {"read", "dispatch", "retrieval", "full_rag"}
    /\ pending' = KeyboardInterrupt
    /\ hpc' = "except"
    /\ PredictFrameGone
    /\ UNCHANGED << stdin, user_input, shown, connected, nProbe, samplesLeft >>
    /\ UNCHANGED ixVars

\* rag_prediction_testing.py:82-86: the except clauses of the loop
LoopExcept ==
    /\ hpc = "except"
    /\ LET how == interactive_except(pending)
       IN  /\ hpc' = CASE how = "break" -> "ended"
                       [] how = "continue" -> "read"
                       [] OTHER -> "escaped"
           /\ shown' = CASE how = "break" -> [kind |-> "goodbye"]
                         [] how = "continue" -> [kind |-> "error", error |-> pending.text]
                         [] OTHER -> shown
    /\ pending' = NoPending
    /\ UNCHANGED << stdin, user_input, connected, nProbe, samplesLeft >>
    /\ UNCHANGED ragVars
    /\ UNCHANGED ixVars

\* What the program does of itself, and what the user does to it.
NextTesterProgram ==
    \/ TestConnection
    \/ SampleQuery
    \/ EnterInteractiveMode
    \/ ReadLine
    \/ ReadEof
    \/ DispatchLine
    \/ TestRetrievalOnly
    \/ TestRetrievalOnlyRaise
    \/ Retrieve
    \/ StartPrompt
    \/ InvokeLlm
    \/ PromptRaise
    \/ LlmReturn
    \/ LlmRaise
    \/ TestFullRagShow
    \/ TestFullRagRaise
    \/ LoopExcept

NextTester == NextTesterProgram \/ KeyboardInterruptRaise

InitTester == RAGIdle /\ NoIndexRun /\ TesterStart

SpecTester == InitTester /\ [][NextTester]_vars

\* Every call of the program returns or raises, and input() answers with a
\* line or with EOFError; nothing obliges the user to interrupt.
SpecTesterLive == InitTester /\ [][NextTester]_vars /\ WF_vars(NextTesterProgram)

\* ------------------------------------------------------------------ claims
Terminal == {"DONE", "ERROR"}

\* Some stage of the current predict call has failed.
StageFailed == searchResp.raised \/ pc = "ERROR"

NoResults ==
    /\ pc \in {"CONTEXT_EMPTY", "CONTEXT_READY", "PROMPTING", "GENERATING", "DONE", "ERROR"}
    /\ searchResp.raised \/ searchResp.results = << >>

\* Where the prompt's context field starts and ends, read off the prompt.
PromptContext(p) ==
    LET q == { i \in 1..Len(p) : p[i] = "%Question%" }
        last == CHOOSE i \in q : \A j \in q : j <= i
    IN  SubSeq(p, Len(TemplateHead) + 1, last - 2)

\* C2 as stated: whenever retrieval yields no results the prompt's context
\* is the placeholder, the model is never invoked with a blank context, and
\* the returned context_used is the placeholder.
C2_PlaceholderAlwaysReturned ==
    /\ pc = "GENERATING" => strip(PromptContext(prompt)) # << >>
    /\ NoResults =>
          /\ pc \in {"PROMPTING", "GENERATING"} => context = Placeholder
          /\ pc = "GENERATING" => PromptContext(prompt) = Placeholder
          /\ pc \in Terminal => result.value.context_used = Placeholder

\* C2, amended: whenever retrieval yields no results the prompt's context is
\* the placeholder, the model is never invoked with a blank context, and a
\* call whose later stages succeed returns the placeholder as context_used
\* (a call whose later stage fails returns the empty context_used).
C2_PlaceholderInPrompt ==
    /\ pc = "GENERATING" => strip(PromptContext(prompt)) # << >>
    /\ NoResults =>
          /\ pc \in {"PROMPTING", "GENERATING"} => context = Placeholder
          /\ pc = "GENERATING" => PromptContext(prompt) = Placeholder
          /\ pc = "DONE" => result.value.context_used = Placeholder
          /\ pc = "ERROR" => result.value.context_used = EmptyStr

\* C2: the search raised, the model answered the placeholder prompt.
C2_Witness ==
    /\ pc = "DONE"
    /\ searchResp.raised
    /\ PromptContext(prompt) = Placeholder
    /\ result.value.context_used = Placeholder

\* The three-decimal text of each score the store uses.
ScoreText(score) ==
    CASE score = 9137 -> "0.914"
      [] score = 420 -> "0.042"
      [] score = 5000 -> "0.500"

\* A text cut at its separator lines.
RECURSIVE SegmentsOf(_)
SegmentsOf(s) ==
    IF s = << >> THEN << << >> >>
    ELSE LET rest == SegmentsOf(Tail(s))
         IN  IF Head(s) = Separator
             THEN << << >> >> \o rest
             ELSE << << Head(s) >> \o Head(rest) >> \o Tail(rest)

\* The context holds one block per result, in ranked order: the annotation
\* line, the chunk's raw text, the separator line.
OneBlockPerResult(ctx, results) ==
    LET segs == SegmentsOf(ctx)
        n == Len(results)
        body(i) == << "[Relevance: " \o ScoreText(results[i][2]) \o "]", "\n" >>
                     \o results[i][1].page_content \o << "\n" >>
    IN  /\ Len(segs) = n + 1
        /\ segs[n + 1] = IF n = 0 THEN << >> ELSE << "\n" >>
        /\ \A i \in 1..n :
              segs[i] = IF i = 1 THEN body(i) ELSE << "\n" >> \o body(i)

\* C3: get_context returns ("", []) and does not raise when the similarity
\* search raises, for every query and k; when the search succeeds it returns
\* the result list unchanged with a context of one annotated block per
\* result, in ranked order.
C3_GetContext ==
    searchResp.k # 0 =>
       /\ ctxReturn.kind = "return"
       /\ searchResp.raised =>
             ctxReturn.value = [context |-> EmptyStr, results |-> << >>]
       /\ ~searchResp.raised =>
             /\ ctxReturn.value.results = searchResp.results
             /\ OneBlockPerResult(ctxReturn.value.context, searchResp.results)

\* C3: a direct call with k = 3 whose search raised.
C3_Witness ==
    /\ pc = "IDLE"
    /\ searchResp.k = 3
    /\ searchResp.raised
    /\ ctxReturn = Returns([context |-> EmptyStr, results |-> << >>])

\* The transitions of the per-query state machine.
AllowedTransitions ==
    { << "IDLE", "RETRIEVING" >>,
      << "RETRIEVING", "CONTEXT_EMPTY" >>, << "RETRIEVING", "CONTEXT_READY" >>,
      << "CONTEXT_EMPTY", "PROMPTING" >>, << "CONTEXT_READY", "PROMPTING" >>,
      << "PROMPTING", "GENERATING" >>,
      << "GENERATING", "DONE" >>,
      << "DONE", "IDLE" >>, << "ERROR", "IDLE" >> }
    \cup
    { << s, "ERROR" >> : s \in {"RETRIEVING", "CONTEXT_EMPTY", "CONTEXT_READY",
                                "PROMPTING", "GENERATING"} }

\* One search, then the prompt, then at most one invocation of the model.
StageOrder ==
    /\ pc \in {"IDLE", "RETRIEVING"} => nSearch = 0 /\ nInvoke = 0
    /\ pc \in {"CONTEXT_EMPTY", "CONTEXT_READY", "PROMPTING"} =>
          nSearch = 1 /\ nInvoke = 0 /\ prompt = EmptyStr
    /\ pc \in {"GENERATING", "DONE"} =>
          nSearch = 1 /\ nInvoke = 1 /\ prompt = get_prompt(query, context)
    /\ pc = "ERROR" => nSearch = 1 /\ nInvoke <= 1

WellFormedPrediction(r) ==
    /\ r.kind = "return"
    /\ DOMAIN r.value = {"answer", "source_documents", "context_used"}

\* C4: every predict call goes IDLE -> RETRIEVING -> (CONTEXT_EMPTY |
\* CONTEXT_READY) -> PROMPTING -> GENERATING -> DONE in that order, with one
\* search before the prompt before at most one model invocation and no
\* stage retried; a stage may instead end in ERROR; and the call eventually
\* reaches DONE or ERROR, with a Prediction of the three fields.
C4_StateMachine ==
    /\ [][pc' # pc => << pc, pc' >> \in AllowedTransitions]_vars
    /\ []StageOrder
    /\ [](pc \in Terminal => WellFormedPrediction(result))
    /\ (pc = "RETRIEVING" ~> pc \in Terminal)

\* C4: a call that went through every stage, with documents found.
C4_Witness ==
    /\ pc = "DONE"
    /\ nSearch = 1
    /\ nInvoke = 1
    /\ source_documents # << >>
    /\ WellFormedPrediction(result)

\* C5: between queries the engine is as it was constructed (the streaming
\* handler's buffer and the display included), and what a query leaves on
\* the display is that query's answer only.
C5_NoStatePersists ==
    /\ pc = "IDLE" => handlerText = EmptyStr /\ display = EmptyStr
    /\ (pc = "DONE" /\ streaming) => display = result.value.answer

\* ------------------------------------------------- claims on the index run
RequiredNames == { RequiredVars[i] : i \in 1..Len(RequiredVars) }

\* The required configuration values that are absent or empty.
AbsentOrEmpty == { v \in RequiredNames : env[v] = PyNone \/ env[v] = PyStr(EmptyStr) }

\* C6: when a required configuration value is absent or empty the index
\* operation reports the missing names and returns before any network call:
\* no paper extraction, no embedding, no upsert in that run.
C6_NoNetworkWhenConfigMissing ==
    AbsentOrEmpty # {} =>
       /\ nExtract = 0 /\ nEmbed = 0 /\ nUpsert = 0 /\ nAddDocuments = 0
       /\ store = << >>
       /\ ipc \in {"check_env", "returned"}
       /\ ipc = "returned" =>
             /\ ixResult = Returns(PyNone)
             /\ log[1].msg = "missing"
             /\ { log[1].names[i] : i \in 1..Len(log[1].names) } = AbsentOrEmpty
             /\ Len(log[1].names) = Cardinality(AbsentOrEmpty)

\* C6: the provider key is set to the empty string, the rest is set.
C6_Witness ==
    /\ ipc = "returned"
    /\ env["OPENAI_API_KEY"] = PyStr(EmptyStr)
    /\ AbsentOrEmpty = {"OPENAI_API_KEY"}
    /\ log[1] = [msg |-> "missing", names |-> << "OPENAI_API_KEY" >>]
    /\ nExtract = 0

\* The record has an abstract with a visible character.
HasAbstract(paper) ==
    /\ "abstract" \in DOMAIN paper
    /\ paper.abstract.type = "str"
    /\ \E i \in 1..Len(paper.abstract.val) : ~IsSpace(paper.abstract.val[i])

\* extract_papers has returned its list.
ExtractionReturned == \E i \in 1..Len(log) : log[i].msg = "extraction complete"

\* The run has reached create_embeddings or the vector store.
ReachedIndexing ==
    \/ ipc \in {"clients", "add_documents"}
    \/ nAddDocuments > 0 \/ nEmbed > 0 \/ nUpsert > 0
    \/ store # << >>
    \/ ceResult # NoOutcome

\* The paper search or the filter left nothing.
NothingToIndex == ExtractionReturned /\ \A i \in 1..Len(papers) : ~HasAbstract(papers[i])

\* Chunking was done and left nothing.
NoChunks ==
    /\ \E i \in 1..Len(log) : log[i].msg = "created chunks"
    /\ splits = PyNone

\* C7: the index operation reaches the vector store only after extraction
\* returned a paper with a non-blank abstract and chunking returned a chunk;
\* when the paper search is empty, the filter leaves nothing or no chunk is
\* produced, the run returns without calling create_embeddings and without
\* raising.
C7_WriteOnlyWithChunks ==
    /\ ReachedIndexing =>
          /\ ExtractionReturned
          /\ \E i \in 1..Len(papers) : HasAbstract(papers[i])
          /\ splits.type = "list"
          /\ Len(splits.val) >= 1
    /\ (NothingToIndex \/ NoChunks) =>
          /\ ipc = "returned"
          /\ ixResult = Returns(PyNone)
          /\ ~ReachedIndexing

\* C7: a paper with an abstract whose chunks the chunk limit removed.
C7_Witness ==
    /\ NoChunks
    /\ \E i \in 1..Len(papers) : HasAbstract(papers[i])
    /\ ipc = "returned"
    /\ nAddDocuments = 0

\* Batches add_documents has sent with success.
BatchesDone == (sent + batch_size - 1) \div batch_size

\* C8: a failure of the embedding client or of the upsert in
\* create_embeddings ends the call: it is logged, it reaches the caller as
\* that exception, nothing is retried and no success is reported.
C8_FailurePropagates ==
    /\ nAddDocuments <= 1
    /\ nUpsert <= nEmbed
    /\ nEmbed <= BatchesDone + 1
    /\ clientFault # NoOutcome =>
          /\ clientFault.kind = "raise"
          /\ ceResult = clientFault
          /\ ixResult = clientFault
          /\ ipc = "raised"
          /\ log[Len(log)] = [msg |-> "error", error |-> clientFault.error]
          /\ \A i \in 1..Len(log) : log[i].msg # "success"

\* C8: the upsert of a later batch failed after a first batch was stored.
C8_Witness ==
    /\ clientFault # NoOutcome
    /\ store # << >>
    /\ nUpsert = nEmbed
    /\ ipc = "raised"

\* C9: a successful create_embeddings call returns the list of the record
\* ids the vector store assigned, one per indexed chunk.
C9_ReturnsAssignedIds ==
    ceResult.kind = "return" =>
       /\ ceResult.value = PyList(ids)
       /\ Len(ids) = Len(splits.val)

\* The records extract_paper_abstracts returned (None: none).
Kept == IF paper_abstracts = PyNone THEN << >> ELSE paper_abstracts.val

\* C10: the filter step returns exactly the input records whose abstract is
\* present and not whitespace-only, in their original order and unmodified,
\* and no record without such an abstract reaches chunking.
C10_FilterExact ==
    ExtractionReturned =>
       /\ \A i \in 1..Len(Kept) :
             \E j \in 1..Len(papers) : papers[j] = Kept[i] /\ HasAbstract(papers[j])
       /\ \A j \in 1..Len(papers) :
             HasAbstract(papers[j]) => \E i \in 1..Len(Kept) : Kept[i] = papers[j]
       /\ Len(Kept) = Cardinality({ j \in 1..Len(papers) : HasAbstract(papers[j]) })
       /\ \A i1, i2 \in 1..Len(Kept) : i1 < i2 => Kept[i1].id.val < Kept[i2].id.val
       /\ splits # PyNone =>
             \A c \in 1..Len(splits.val) :
                \E j \in 1..Len(papers) :
                   /\ HasAbstract(papers[j])
                   /\ splits.val[c].metadata.id = papers[j].id

\* C10: of two records, the first has a whitespace-only abstract and is
\* dropped, the second is kept and chunked.
C10_Witness ==
    /\ Len(papers) = 2
    /\ papers[1] = [id |-> PyInt(1), abstract |-> PyStr(<< " ", " " >>)]
    /\ HasAbstract(papers[2])
    /\ paper_abstracts = PyList(<< papers[2] >>)
    /\ splits # PyNone

\* split_and_chunk_documents has run to its end.
ChunkingReturned == \E i \in 1..Len(log) : log[i].msg = "created chunks"

\* The chunks generated before any limit applies, record after record and
\* within a record in the order the splitter produced them.
Generated ==
    IF paper_abstracts = PyNone THEN << >>
    ELSE SplitDocuments(MakeDocuments(paper_abstracts.val))

\* The chunks split_and_chunk_documents returned (None: none).
ReturnedChunks == IF splits = PyNone THEN << >> ELSE splits.val

\* C11: with max_chunks set (not None) and more chunks generated than
\* max_chunks, split_and_chunk_documents returns exactly the first max_chunks
\* chunks in generation order; with max_chunks unset or not exceeded it
\* returns all the chunks.
C11_TruncatesToMaxChunks ==
    ChunkingReturned =>
       IF max_chunks # PyNone /\ Len(Generated) > max_chunks.val
       THEN /\ Len(ReturnedChunks) = max_chunks.val
            /\ \A i \in 1..Len(ReturnedChunks) : ReturnedChunks[i] = Generated[i]
       ELSE ReturnedChunks = Generated

\* The number of characters two consecutive chunks share: the longest end
\* of the first that is also the start of the second.
Overlap(a, b) ==
    LET ks == { k \in 0..Min(Len(a), Len(b)) :
                  SubSeq(a, Len(a) - k + 1, Len(a)) = SubSeq(b, 1, k) }
        most == CHOOSE k \in ks : \A j \in ks : j <= k
    IN  TextLen(SubSeq(b, 1, most))

\* The chunk comes from a record whose abstract is longer than the chunk size.
FromLongAbstract(chunk) ==
    \E j \in 1..Len(papers) :
       /\ papers[j].id = chunk.metadata.id
       /\ HasAbstract(papers[j])
       /\ TextLen(papers[j].abstract.val) > ChunkSize

\* C12: every chunk split_and_chunk_documents produces from an abstract
\* longer than the chunk size has at most ChunkSize characters, also when the
\* abstract holds none of the separators, and two adjacent chunks of one
\* record share at most ChunkOverlap characters.
C12_ChunksBounded ==
    ChunkingReturned =>
       /\ \A i \in 1..Len(ReturnedChunks) :
             FromLongAbstract(ReturnedChunks[i]) =>
                TextLen(ReturnedChunks[i].page_content) <= ChunkSize
       /\ \A i \in 1..(Len(ReturnedChunks) - 1) :
             ( /\ FromLongAbstract(ReturnedChunks[i])
               /\ ReturnedChunks[i].metadata = ReturnedChunks[i + 1].metadata )
             => Overlap(ReturnedChunks[i].page_content,
                        ReturnedChunks[i + 1].page_content) <= ChunkOverlap

IsExitLine == \E w \in {"quit", "exit", "q", "Exit", "QUIT"} : user_input = << w >>
IsSearchLine == Len(user_input) >= 1 /\ user_input[1] = "search:"
IsEmptyLine == Len(user_input) = 0

\* The step dispatches the line just read (the user does not interrupt it).
Dispatches == hpc = "dispatch" /\ hpc' # "except"

\* No language-model call is made for a search directive.
SearchWithoutLlm ==
    [][ hpc = "retrieval" => (nInvoke' = 0 /\ pc' = "IDLE" /\ hpc' \in {"read", "except"}) ]_vars

\* C14 as stated: each line read goes to exactly one of three handlers: an
\* exit command ends the loop, a line starting with "search:" goes to the
\* retrieval-only display (the language model is not invoked for it), any
\* other line goes to predict-and-display, the exit test coming first.
C14_ThreeHandlers ==
    /\ [][ Dispatches =>
             IF IsExitLine THEN hpc' = "ended" /\ pc' = "IDLE"
             ELSE IF IsSearchLine THEN hpc' = "retrieval" /\ pc' = "IDLE"
             ELSE hpc' = "full_rag" /\ pc' = "RETRIEVING" /\ query' = user_input ]_vars
    /\ SearchWithoutLlm

\* C14 as amended: as above for a line that is not empty after trimming; an
\* empty one goes to none of the three, a reminder is shown and the next
\* line is read.
C14_DispatchByLine ==
    /\ [][ Dispatches =>
             IF IsExitLine THEN hpc' = "ended" /\ pc' = "IDLE"
             ELSE IF IsSearchLine THEN hpc' = "retrieval" /\ pc' = "IDLE"
             ELSE IF ~IsEmptyLine
                  THEN hpc' = "full_rag" /\ pc' = "RETRIEVING" /\ query' = user_input
             ELSE hpc' = "read" /\ pc' = "IDLE" /\ shown' = [kind |-> "reminder"] ]_vars
    /\ SearchWithoutLlm

\* C14: a search directive has been answered with documents, and no
\* language-model call was made.
C14_Witness ==
    /\ hpc = "read"
    /\ IsSearchLine
    /\ shown.kind = "documents"
    /\ nInvoke = 0
    /\ pc = "IDLE"

\* test_connection has just returned to main.
ConnectionTested ==
    hpc = "main_returned" \/ (hpc = "samples" /\ samplesLeft = SampleQueryCount)

\* C15: test_connection issues one similarity search for one result and
\* returns True exactly when a result came back; False, without raising,
\* when the search raised or the store answered with nothing; it makes no
\* language-model call and writes nothing to the store.
C15_TestConnection ==
    ConnectionTested =>
       /\ nProbe = 1
       /\ searchResp.k = 1
       /\ connected.kind = "return"
       /\ connected.value = (~searchResp.raised /\ Len(searchResp.results) >= 1)
       /\ nInvoke = 0
       /\ store = << >>
       /\ nUpsert = 0

\* C15: the search raised and test_connection answered False.
C15_Witness ==
    /\ hpc = "main_returned"
    /\ searchResp.raised
    /\ connected = Returns(FALSE)

\* C16: the loop of interactive_mode is left exactly on an exit command or
\* an interrupt, and the session ends on every input stream that ends.
C16_SessionEnds ==
    /\ [][ (hpc # "ended" /\ hpc' = "ended") =>
              \/ (hpc = "dispatch" /\ IsExitLine)
              \/ (hpc = "except" /\ pending.cls = "KeyboardInterrupt") ]_vars
    /\ [][ (Dispatches /\ IsExitLine) => hpc' = "ended" ]_vars
    /\ (hpc = "read" ~> hpc = "ended")

====
